---- MODULE Spec2Model ----
(***************************************************************************)
(* A model of the mesh / vertex-attribute layout and transform pipeline of *)
(* lighthouse: Mesh::new, Mesh::setup and Mesh::set_vert_attr of the       *)
(* library (src/src/ECS/mesh.rs, src/src/core/object.rs), and the          *)
(* pyramid of the demo program (src/src/main.rs) with its per-tick vertex  *)
(* transform Pyramid::get_vert, over a small model of the OpenGL state the *)
(* wrappers in src/src/graphics/ act on.                                   *)
(*                                                                         *)
(* Numbers.  An f32 is modelled by an integer: every coordinate of the     *)
(* model is a small whole number, on which f32 addition is exact.  A       *)
(* rotation angle is counted in quarter turns, and rotation axes are       *)
(* parallel to a coordinate axis: these are the rotations that map whole   *)
(* coordinates to whole coordinates, so rotate_vec3 is computed exactly    *)
(* (the f32 result differs from it by rounding only).  An axis of length 0 *)
(* (which normalises to NaN) is outside the model.                         *)
(*                                                                         *)
(* The module also models CameraSettingsBuilder of src/src/core/camera.rs  *)
(* (specification SpecCamera) and StateOfMouse::switch of                  *)
(* src/src/core/mouse.rs (specification SpecMouse).  The f32 fields of the *)
(* camera settings are counted in tenths (45.0 is 450).                    *)
(***************************************************************************)
EXTENDS Integers, Sequences, FiniteSets, TLC

VARIABLES
    mesh,      \* the library Mesh built by Mesh::new: <<>> or <<m>>
    ret,       \* what the last call of Mesh::new was given and what it returned
    pyramid,   \* the demo program's Pyramid: <<>> or <<p>>
    out,       \* the value returned by the last call of Pyramid::get_vert: <<>> or <<v>>
    gl,        \* the OpenGL state: generated names, bindings, attribute pointers, buffer
               \* data, and the log of the calls made by the last operation
    builder,   \* a CameraSettingsBuilder
    settings,  \* the outcome of the last call of build() on the builder
    op,        \* the method of the builder that was called last
    state,     \* the StateOfMouse returned by the last call of switch
    receiver,  \* the StateOfMouse the last call of switch was made on, after the call
    hist,      \* the on_locked arguments of the calls of switch so far, in call order
    clock,     \* the time Instant::now() returns
    mouse,     \* a Mouse: the wrapped MouseState, the StateOfMouse and last_pressed
    pressed,   \* the last call of get_pressed / get_pressed_cooldown: its argument, the
               \* time it was made, last_pressed before it, and what it returned
    timeline,  \* when the Mouse was created and when a call last reported a button
    texture,   \* the Texture returned by the last call of Texture::from_image: <<>> or <<t>>
    tex,       \* the last call of Texture::from_image: the parameter map it was given,
               \* how it ended, and the GL calls it made
    glsl,      \* the shader and program objects of the GL, and the GL calls of the
               \* last call of ShaderProgram::from_vert_frag
    program,   \* the last call of ShaderProgram::from_vert_frag: what it was given,
               \* what it returned, and how many calls there have been
    world,     \* the demo's World: the position of its camera, the keys the last frame
               \* read, and the functions the last World::update called, in call order
    ticks,     \* the angle the pyramid of the world was created with and the number of
               \* frames since
    ecs,       \* the entities of an ECS world: their Mesh components, the Position and
               \* Rotation the last update system run read, and the system that ran last
    onmouse    \* the last call of Camera::on_mouse: the window size it read, the state
               \* of the mouse before it, and where it warped the cursor to

meshVars == <<mesh, ret, pyramid, out, gl>>
cameraVars == <<builder, settings, op>>
mouseVars == <<state, receiver, hist>>
clickVars == <<clock, mouse, pressed, timeline>>
textureVars == <<texture, tex>>
shaderVars == <<glsl, program>>
worldVars == <<world, ticks>>
ecsVars == <<ecs>>
onmouseVars == <<onmouse>>
\* the variables of the specifications further down, left alone by the three above
laterVars == <<clickVars, textureVars, shaderVars, worldVars, ecsVars, onmouseVars>>
\* the later variables other than those of one group
notClick == <<textureVars, shaderVars, worldVars, ecsVars, onmouseVars>>
notTexture == <<clickVars, shaderVars, worldVars, ecsVars, onmouseVars>>
notShader == <<clickVars, textureVars, worldVars, ecsVars, onmouseVars>>
notWorld == <<clickVars, textureVars, shaderVars, ecsVars, onmouseVars>>
notEcs == <<clickVars, textureVars, shaderVars, worldVars, onmouseVars>>
notOnMouse == <<textureVars, shaderVars, worldVars, ecsVars>>
vars ==
    <<mesh, ret, pyramid, out, gl, builder, settings, op, state, receiver, hist,
      clock, mouse, pressed, timeline, texture, tex, glsl, program, world, ticks,
      ecs, onmouse>>

----------------------------------------------------------------------------
(* Bounds of the model *)

\* vertex lists have at most MaxVerts vertices
MaxVerts == 2
\* index lists have at most MaxTris triangles
MaxTris == 1
\* attribute layouts have at most MaxAttrs attributes
MaxAttrs == 2
\* rotation angles range over 0..MaxAngle quarter turns
MaxAngle == 4
\* a run makes at most MaxSwitches calls of StateOfMouse::switch
MaxSwitches == 4
\* the clock runs from 0 to MaxTime
MaxTime == 4
\* a run makes at most MaxPrograms calls of ShaderProgram::from_vert_frag
MaxPrograms == 3
\* an ECS world has at most MaxMeshes entities with a Mesh
MaxMeshes == 2

----------------------------------------------------------------------------
(* Program constants *)

\* size_of::<f32>()
SizeOfF32 == 4
\* the number of leading components of a vertex that Pyramid::get_vert rotates
PosLen == 3
\* size_of::<Vertex>() of the demo program's Vertex, a Vec3 and a Vec2 of f32
SizeOfVertex == 20
\* what Pyramid::update adds to the angle on every tick, in the model's angle unit
AngleStep == 1

----------------------------------------------------------------------------
(* Sequences *)

RECURSIVE Sum(_)
\* Iterator::sum over a sequence of numbers
Sum(s) == IF s = <<>> THEN 0 ELSE Head(s) + Sum(Tail(s))

\* the slice s[0..i] of Rust: the first i elements
Prefix(s, i) == SubSeq(s, 1, i)

RECURSIVE Flatten(_)
\* the concatenation of a sequence of sequences (flat_map / cast_slice)
Flatten(ss) == IF ss = <<>> THEN <<>> ELSE Head(ss) \o Flatten(Tail(ss))

\* all sequences over S of length lo..hi
SeqsOf(S, lo, hi) == UNION {[1..n -> S] : n \in lo..hi}

----------------------------------------------------------------------------
(* The OpenGL state the wrappers of src/src/graphics act on *)

\* the state of a fresh context: no name generated, nothing bound
GlInit ==
    [nvao |-> 0, nbuf |-> 0, vao |-> 0, array |-> 0, element |-> 0,
     attribs |-> {}, data |-> <<>>, log |-> <<>>]

\* one logged call: the function, its integer arguments, the data passed
Call(fn, args, data) == [fn |-> fn, args |-> args, data |-> data]

Logged(g, fn, args, data) == [g EXCEPT !.log = Append(@, Call(fn, args, data))]

\* an operation starts with an empty call log
Begin(g) == [g EXCEPT !.log = <<>>]

\* VertexArray::new: glGenVertexArrays; val is the Option's name, 0 for None.
\* ok: whether the driver hands out a name
VertexArray_new(g, ok) ==
    LET g1 == Logged(g, "glGenVertexArrays", <<1>>, <<>>)
    IN  IF ok THEN [g |-> [g1 EXCEPT !.nvao = @ + 1], val |-> g.nvao + 1]
        ELSE [g |-> g1, val |-> 0]

\* VertexArray::bind
VertexArray_bind(g, vao) ==
    [Logged(g, "glBindVertexArray", <<vao>>, <<>>) EXCEPT !.vao = vao]

\* Buffer::new: glGenBuffers; val is the Option's name, 0 for None
Buffer_new(g, ok) ==
    LET g1 == Logged(g, "glGenBuffers", <<1>>, <<>>)
    IN  IF ok THEN [g |-> [g1 EXCEPT !.nbuf = @ + 1, !.data = Append(@, <<>>)],
                    val |-> g.nbuf + 1]
        ELSE [g |-> g1, val |-> 0]

\* Buffer::bind(ty): glBindBuffer(ty, name); ty is "Array" or "ElementArray"
Buffer_bind(g, ty, name) ==
    LET g1 == Logged(g, "glBindBuffer", <<IF ty = "Array" THEN 0 ELSE 1, name>>, <<>>)
    IN  IF ty = "Array" THEN [g1 EXCEPT !.array = name]
        ELSE [g1 EXCEPT !.element = name]

\* buffer_data(ty, data, usage): glBufferData stores data in the buffer bound to
\* ty; with no buffer bound the call is an error that stores nothing
buffer_data(g, ty, data) ==
    LET g1 == Logged(g, "glBufferData", <<IF ty = "Array" THEN 0 ELSE 1>>, data)
        b == IF ty = "Array" THEN g.array ELSE g.element
    IN  IF b = 0 THEN g1 ELSE [g1 EXCEPT !.data[b] = data]

\* glVertexAttribPointer(index, size, GL_FLOAT, GL_FALSE, stride, pointer): the
\* pointer of attribute index of the bound vertex array, into the bound array buffer
glVertexAttribPointer(g, index, size, stride, pointer) ==
    LET g1 == Logged(g, "glVertexAttribPointer", <<index, size, stride, pointer>>, <<>>)
        old == {a \in g.attribs : a.vao = g.vao /\ a.index = index}
        en == \E a \in old : a.enabled
    IN  [g1 EXCEPT !.attribs = (@ \ old) \cup
            {[vao |-> g.vao, index |-> index, size |-> size, stride |-> stride,
              pointer |-> pointer, buffer |-> g.array, enabled |-> en]}]

\* glEnableVertexAttribArray(index), on the bound vertex array
glEnableVertexAttribArray(g, index) ==
    LET g1 == Logged(g, "glEnableVertexAttribArray", <<index>>, <<>>)
        old == {a \in g.attribs : a.vao = g.vao /\ a.index = index}
    IN  IF old = {}
        THEN [g1 EXCEPT !.attribs = @ \cup
                {[vao |-> g.vao, index |-> index, size |-> 4, stride |-> 0,
                  pointer |-> 0, buffer |-> 0, enabled |-> TRUE]}]
        ELSE [g1 EXCEPT !.attribs = (@ \ old) \cup
                {[a EXCEPT !.enabled = TRUE] : a \in old}]

----------------------------------------------------------------------------
(* Vertices, attribute layouts and index lists *)

\* Vertex of the demo program: a position and a texture coordinate.  The library
\* is generic in the vertex type; a vertex of the model is a record of these two
\* lists, whose tex_coord may be shorter in a type that carries fewer components
MkVertex(vert, tex_coord) == [vert |-> vert, tex_coord |-> tex_coord]

\* VertexTrait::as_list as the demo program implements it: the position
\* components followed by the texture coordinate components
as_list(v) == v.vert \o v.tex_coord

\* the vertices Mesh::new is tried on: two of 5 components, one of 4
VertexPool ==
    {MkVertex(<<1, 0, 0>>, <<7, 8>>), MkVertex(<<0, 1, -1>>, <<8, 7>>),
     MkVertex(<<1, 0, 0>>, <<7>>)}

\* the component counts an attribute may have
AttrSizes == 1..3

\* the triangles the index lists are made of: the index 5 is out of range for
\* every vertex list of the model, the index 1 for those of one vertex
TriPool == {<<0, 0, 0>>, <<0, 1, 0>>, <<0, 1, 5>>}

\* size_of::<Vertex>() is the size of the components as_list lists plus the
\* bytes of the type that as_list does not list (a further field, padding):
\* none, or four
ExtraBytes == {0, 4}

\* size_of::<Vertex>() of the type of the vertices of a non-empty list
size_of_Vertex(vert, extra) ==
    IF vert = <<>> THEN extra ELSE SizeOfF32 * Len(as_list(vert[1])) + extra

VertexLists == SeqsOf(VertexPool, 0, MaxVerts)
Layouts == SeqsOf(AttrSizes, 0, MaxAttrs)
IndexLists == SeqsOf(TriPool, 0, MaxTris)

----------------------------------------------------------------------------
(* Mesh::new *)

NoErr == [text |-> "", vals |-> <<>>]

\* the record of a call of Mesh::new: its arguments and its outcome; kind is
\* "none" (never called), "Ok", "Err" or "panic"
Ret(kind, variant, vert, vert_attr, index, err) ==
    [kind |-> kind, variant |-> variant, vert |-> vert, vert_attr |-> vert_attr,
     index |-> index, err |-> err]

RetInit == Ret("none", "", <<>>, <<>>, <<>>, NoErr)

\* LayoutMismatch with the number of vertices taken for the component count
LayoutMismatch_vertex_count(vert, vert_attr) == Len(vert) # Sum(vert_attr)

\* The layout check both versions of Mesh::new make: the component count of the
\* FIRST vertex against the sum of the layout
LayoutMismatch(vert, vert_attr) == Len(as_list(vert[1])) # Sum(vert_attr)

\* The struct literal of Mesh::new: the three arguments, then a vertex array and
\* two buffers, each generated with expect().  alloc is the number of names the
\* driver hands out before it fails (3: all).  The result holds the Mesh, or <<>>
\* and the message of the expect() that panicked
MeshAlloc(g, vert, vert_attr, index, vsize, variant, alloc) ==
    LET a == VertexArray_new(g, alloc >= 1)
        b == Buffer_new(a.g, alloc >= 2)
        c == Buffer_new(b.g, alloc >= 3)
    IN  IF a.val = 0 THEN [g |-> a.g, mesh |-> <<>>, msg |-> "Couldn't make a VAO"]
        ELSE IF b.val = 0 THEN [g |-> b.g, mesh |-> <<>>, msg |-> "Couldn't make a VBO"]
        ELSE IF c.val = 0 THEN [g |-> c.g, mesh |-> <<>>, msg |-> "Couldn't make EBO"]
        ELSE [g |-> c.g, msg |-> "",
              mesh |-> <<[vertices |-> vert, vert_attr |-> vert_attr, indicies |-> index,
                          vao |-> a.val, vbo |-> b.val, ebo |-> c.val,
                          vsize |-> vsize, variant |-> variant]>>]

\* Mesh::new of ECS/mesh.rs.  vert[0] panics on an empty list; the layout check
\* returns Err with both numbers in the message; nothing is bound
Mesh_new(g, vert, vert_attr, index, vsize, alloc) ==
    IF vert = <<>>
    THEN [g |-> g, mesh |-> <<>>,
          ret |-> Ret("panic", "ECS", vert, vert_attr, index,
                      [text |-> "index out of bounds", vals |-> <<>>])]
    ELSE IF LayoutMismatch(vert, vert_attr)
    THEN [g |-> g, mesh |-> <<>>,
          ret |-> Ret("Err", "ECS", vert, vert_attr, index,
                      [text |-> "The sum of the vertex attributes {} must be equal to the number of element in the vertex {}",
                       vals |-> <<Sum(vert_attr), Len(as_list(vert[1]))>>])]
    ELSE LET m == MeshAlloc(g, vert, vert_attr, index, vsize, "ECS", alloc)
         IN  IF m.mesh = <<>>
             THEN [g |-> m.g, mesh |-> <<>>,
                   ret |-> Ret("panic", "ECS", vert, vert_attr, index,
                               [text |-> m.msg, vals |-> <<>>])]
             ELSE [g |-> m.g, mesh |-> m.mesh,
                   ret |-> Ret("Ok", "ECS", vert, vert_attr, index, NoErr)]

\* Mesh::new of core/object.rs.  The same checks; the message carries no number;
\* the new vertex array and buffers are bound before the Mesh is returned
Mesh_new_object(g, vert, vert_attr, index, vsize, alloc) ==
    IF vert = <<>>
    THEN [g |-> g, mesh |-> <<>>,
          ret |-> Ret("panic", "core", vert, vert_attr, index,
                      [text |-> "index out of bounds", vals |-> <<>>])]
    ELSE IF LayoutMismatch(vert, vert_attr)
    THEN [g |-> g, mesh |-> <<>>,
          ret |-> Ret("Err", "core", vert, vert_attr, index,
                      [text |-> "The sum of the vertex attributes must be equal to the number of element in the vertex",
                       vals |-> <<>>])]
    ELSE LET m == MeshAlloc(g, vert, vert_attr, index, vsize, "core", alloc)
         IN  IF m.mesh = <<>>
             THEN [g |-> m.g, mesh |-> <<>>,
                   ret |-> Ret("panic", "core", vert, vert_attr, index,
                               [text |-> m.msg, vals |-> <<>>])]
             ELSE LET g1 == VertexArray_bind(m.g, m.mesh[1].vao)
                      g2 == Buffer_bind(g1, "Array", m.mesh[1].vbo)
                      g3 == Buffer_bind(g2, "ElementArray", m.mesh[1].ebo)
                  IN  [g |-> g3, mesh |-> m.mesh,
                       ret |-> Ret("Ok", "core", vert, vert_attr, index, NoErr)]

----------------------------------------------------------------------------
(* Binding the vertex attributes *)

RECURSIVE AttrLoop_inclusive(_, _, _, _)
\* AttrLoop with the slice vert_attr[0..=i]: the offset of attribute i counts
\* attribute i itself
AttrLoop_inclusive(g, m, i, enable) ==
    IF i >= Len(m.vert_attr) THEN g
    ELSE LET pointer == SizeOfF32 * Sum(Prefix(m.vert_attr, i + 1))
             g1 == glVertexAttribPointer(g, i, m.vert_attr[i + 1], m.vsize, pointer)
             g2 == IF enable THEN glEnableVertexAttribArray(g1, i) ELSE g1
         IN  AttrLoop_inclusive(g2, m, i + 1, enable)

RECURSIVE AttrLoop(_, _, _, _)
\* The loop of Mesh::setup and Mesh::set_vert_attr from attribute i (counted from
\* 0) on: attribute i has vert_attr[i] components, the stride size_of::<Vertex>()
\* and the byte offset size_of::<f32>() * sum(vert_attr[0..i]); enable says
\* whether the attribute array is enabled as well (setup does, set_vert_attr
\* does not)
AttrLoop(g, m, i, enable) ==
    IF i >= Len(m.vert_attr) THEN g
    ELSE LET pointer == SizeOfF32 * Sum(Prefix(m.vert_attr, i))
             g1 == glVertexAttribPointer(g, i, m.vert_attr[i + 1], m.vsize, pointer)
             g2 == IF enable THEN glEnableVertexAttribArray(g1, i) ELSE g1
         IN  AttrLoop(g2, m, i + 1, enable)

\* Mesh::setup (ECS/mesh.rs): bind the vertex array and the two buffers, then
\* declare and enable every attribute
setup(g, m) ==
    LET g1 == VertexArray_bind(g, m.vao)
        g2 == Buffer_bind(g1, "Array", m.vbo)
        g3 == Buffer_bind(g2, "ElementArray", m.ebo)
    IN  AttrLoop(g3, m, 0, TRUE)

\* Mesh::set_vert_attr (core/object.rs): declare every attribute
set_vert_attr(g, m) == AttrLoop(g, m, 0, FALSE)

\* Mesh::update_mesh (core/object.rs): upload the flattened as_list of every
\* vertex, then the flattened indices
update_mesh(g, m) ==
    LET data == Flatten([i \in 1..Len(m.vertices) |-> as_list(m.vertices[i])])
        g1 == buffer_data(g, "Array", data)
    IN  buffer_data(g1, "ElementArray", Flatten(m.indicies))

----------------------------------------------------------------------------
(* Rotation: nalgebra_glm::rotate_vec3 *)

Cross(a, b) ==
    <<a[2] * b[3] - a[3] * b[2], a[3] * b[1] - a[1] * b[3], a[1] * b[2] - a[2] * b[1]>>

Dot(a, b) == a[1] * b[1] + a[2] * b[2] + a[3] * b[3]

Scale(c, a) == <<c * a[1], c * a[2], c * a[3]>>

Add(a, b) == <<a[1] + b[1], a[2] + b[2], a[3] + b[3]>>

Sign(x) == IF x > 0 THEN 1 ELSE IF x < 0 THEN -1 ELSE 0

\* Unit::new_normalize of a vector parallel to a coordinate axis
Normalize(a) == <<Sign(a[1]), Sign(a[2]), Sign(a[3])>>

\* cosine and sine of q quarter turns
Cos(q) == CASE q % 4 = 0 -> 1 [] q % 4 = 2 -> -1 [] OTHER -> 0
Sin(q) == CASE q % 4 = 1 -> 1 [] q % 4 = 3 -> -1 [] OTHER -> 0

\* AxisAngle turning the other way (the left-hand rule)
AxisAngle_left_handed(v, angle, k) ==
    Add(Add(Scale(Cos(angle), v), Scale(-Sin(angle), Cross(k, v))),
        Scale(Dot(k, v) * (1 - Cos(angle)), k))

\* Rotation3::from_axis_angle(k, angle) * v for a unit axis k and a non-zero
\* angle: the matrix k k^T + cos (I - k k^T) + sin [k]x applied to v
AxisAngle(v, angle, k) ==
    Add(Add(Scale(Cos(angle), v), Scale(Sin(angle), Cross(k, v))),
        Scale(Dot(k, v) * (1 - Cos(angle)), k))

\* rotate_vec3 with rot read as a quaternion: w = 0 is then a half turn about xyz
rotate_vec3_quaternion(v, angle, normal) ==
    AxisAngle(v, IF angle = 0 THEN 2 ELSE angle, Normalize(normal))

\* rotate_vec3(v, angle, normal): v turned by angle about the normalised normal;
\* from_axis_angle is the identity for the angle 0, whatever the axis
rotate_vec3(v, angle, normal) ==
    IF angle = 0 THEN v ELSE AxisAngle(v, angle, Normalize(normal))

----------------------------------------------------------------------------
(* Mesh::update of ECS/mesh.rs *)

\* VertexTrait::get_vertex(pos, rot), which the repository declares and calls
\* but does not implement: the vertex with its position rotated by rot.w about
\* rot.xyz and then moved by pos, the other components kept
get_vertex(v, pos, rot) ==
    [v EXCEPT !.vert = Add(rotate_vec3(v.vert, rot.w, rot.xyz), pos)]

\* the Position and Rotation pairs Mesh::update is tried with: the zero pose, a
\* quarter turn at the origin, a half turn about an axis of length 3 and a shift
EcsPoses ==
    {[pos |-> <<0, 0, 0>>, rot |-> [xyz |-> <<0, 1, 0>>, w |-> 0]],
     [pos |-> <<0, 0, 0>>, rot |-> [xyz |-> <<0, 1, 0>>, w |-> 1]],
     [pos |-> <<0, -1, 1>>, rot |-> [xyz |-> <<-3, 0, 0>>, w |-> 2]]}

\* Mesh::update: upload the flattened as_list of every transformed vertex, then
\* the flattened indices; nothing is bound here
Mesh_update(g, m, pos, rot) ==
    LET data == Flatten([i \in 1..Len(m.vertices) |->
                            as_list(get_vertex(m.vertices[i], pos, rot))])
        g1 == buffer_data(g, "Array", data)
    IN  buffer_data(g1, "ElementArray", Flatten(m.indicies))

----------------------------------------------------------------------------
(* The mesh systems of ECS/mesh.rs: impl_setup_mesh, impl_update_mesh *)

\* the arguments the meshes of a world are constructed with: vertices, layout,
\* indices
EcsMeshArgs ==
    {<<v, <<3, 1>>, i>> : v \in {<<MkVertex(<<1, 0, 0>>, <<7>>)>>,
                                 <<MkVertex(<<0, 1, -1>>, <<8>>), MkVertex(<<1, 0, 0>>, <<7>>)>>},
                         i \in {<<>>, <<<<0, 1, 0>>>>}}

\* Mesh::new for each entity in turn, from the i-th on; every name is handed out
RECURSIVE EcsMeshes(_, _, _)
EcsMeshes(g, args, i) ==
    IF i > Len(args) THEN [g |-> g, meshes |-> <<>>]
    ELSE LET r == Mesh_new(g, args[i][1], args[i][2], args[i][3],
                           size_of_Vertex(args[i][1], 0), 3)
             rest == EcsMeshes(r.g, args, i + 1)
         IN  [g |-> rest.g, meshes |-> r.mesh \o rest.meshes]

\* the setup system: mesh.setup() for every mesh of the join, from the i-th on
RECURSIVE setup_system(_, _, _)
setup_system(g, meshes, i) ==
    IF i > Len(meshes) THEN g ELSE setup_system(setup(g, meshes[i]), meshes, i + 1)

\* the update system: mesh.update(pos, rot) for every entity of the join, from
\* the i-th on
RECURSIVE update_system(_, _, _, _)
update_system(g, meshes, poses, i) ==
    IF i > Len(meshes) THEN g
    ELSE update_system(Mesh_update(g, meshes[i], poses[i].pos, poses[i].rot),
                       meshes, poses, i + 1)

----------------------------------------------------------------------------
(* The pyramid of the demo program *)

\* the vertices a pyramid is made of, [f32; 5] each
PyramidVertexPool == {<<1, 0, 0, 7, 8>>, <<0, 1, -1, 8, 7>>, <<-1, 1, 1, 0, 1>>}

\* positions of the pose
PosPool == {<<0, 0, 0>>, <<1, 0, 0>>, <<0, -1, 1>>}

\* rotation axes of the pose (rot.xyz): both directions of each coordinate axis,
\* and <<0, 2, 0>> and <<-3, 0, 0>>, which are not of length 1
AxisPool ==
    {<<1, 0, 0>>, <<-1, 0, 0>>, <<0, 1, 0>>, <<0, -1, 0>>, <<0, 0, 1>>, <<0, 0, -1>>,
     <<0, 2, 0>>, <<-3, 0, 0>>}

PyramidMeshes ==
    {<<v, i>> : v \in SeqsOf(PyramidVertexPool, 1, MaxVerts), i \in IndexLists}

\* rot: Vec4, its xyz the axis and its w the angle
Rots == [xyz : AxisPool, w : 0..MaxAngle]

\* get_vert with split_at_mut(2): the rotated position lands on the components
\* 2, 3 and 4 of the vertex
get_vert_split_at_2(p) ==
    [index \in 1..Len(p.mesh[1]) |->
        LET vertex == p.mesh[1][index]
            vec == rotate_vec3(<<vertex[1], vertex[2], vertex[3]>>, p.rot.w, p.rot.xyz)
        IN  SubSeq(vertex, 1, 2) \o vec]

\* Pyramid::get_vert: a copy of the vertices (self.mesh.0) in which the first
\* three components of each are replaced by their rotation by rot.w about
\* rot.xyz; self.pos is not read
get_vert(p) ==
    [index \in 1..Len(p.mesh[1]) |->
        LET vertex == p.mesh[1][index]
            vec == rotate_vec3(<<vertex[1], vertex[2], vertex[3]>>, p.rot.w, p.rot.xyz)
        IN  vec \o SubSeq(vertex, PosLen + 1, Len(vertex))]

\* Pyramid::new: the fields, a vertex array and two buffers generated with
\* expect() and bound, and the two attributes of Vertex declared and enabled
Pyramid_new(g, pos, rot, m, alloc) ==
    LET a == VertexArray_new(g, alloc >= 1)
        b == Buffer_new(a.g, alloc >= 2)
        c == Buffer_new(b.g, alloc >= 3)
    IN  IF a.val = 0 THEN [g |-> a.g, pyramid |-> <<>>, msg |-> "Couldn't make a VAO"]
        ELSE IF b.val = 0 THEN [g |-> b.g, pyramid |-> <<>>, msg |-> "Couldn't make a VBO"]
        ELSE IF c.val = 0 THEN [g |-> c.g, pyramid |-> <<>>, msg |-> "Couldn't make EBO"]
        ELSE LET g1 == VertexArray_bind(c.g, a.val)
                 g2 == Buffer_bind(g1, "Array", b.val)
                 g3 == Buffer_bind(g2, "ElementArray", c.val)
                 g4 == glVertexAttribPointer(g3, 0, 3, SizeOfVertex, 0)
                 g5 == glVertexAttribPointer(g4, 1, 2, SizeOfVertex, SizeOfF32 * 3)
                 g6 == glEnableVertexAttribArray(g5, 0)
                 g7 == glEnableVertexAttribArray(g6, 1)
             IN  [g |-> g7, msg |-> "",
                  pyramid |-> <<[pos |-> pos, rot |-> rot, mesh |-> m,
                                 vao |-> a.val, vbo |-> b.val, ebo |-> c.val]>>]

\* Pyramid_update that hands the transformed vertices to the element buffer too
Pyramid_update_vertices_as_indices(g, p) ==
    LET p1 == [p EXCEPT !.rot.w = @ + AngleStep]
        v == get_vert(p1)
        g1 == buffer_data(g, "Array", Flatten(v))
        g2 == buffer_data(g1, "ElementArray", Flatten(v))
    IN  [g |-> g2, pyramid |-> p1, vert |-> v]

\* Pyramid_update that stores the transformed vertices as the new base vertices
Pyramid_update_in_place(g, p) ==
    LET p1 == [p EXCEPT !.rot.w = @ + AngleStep]
        v == get_vert(p1)
        g1 == buffer_data(g, "Array", Flatten(v))
        g2 == buffer_data(g1, "ElementArray", Flatten(p1.mesh[2]))
    IN  [g |-> g2, pyramid |-> [p1 EXCEPT !.mesh[1] = v], vert |-> v]

\* Pyramid_update that turns the stored vertices by one step and stores the result
Pyramid_update_incremental(g, p) ==
    LET p1 == [p EXCEPT !.rot.w = @ + AngleStep]
        v == get_vert([p1 EXCEPT !.rot.w = AngleStep])
        g1 == buffer_data(g, "Array", Flatten(v))
        g2 == buffer_data(g1, "ElementArray", Flatten(p1.mesh[2]))
    IN  [g |-> g2, pyramid |-> [p1 EXCEPT !.mesh[1] = v], vert |-> v]

\* Pyramid::update: step the angle, upload the transformed vertices, upload the
\* indices.  The result holds the pyramid, the value get_vert returned and the
\* OpenGL state
Pyramid_update(g, p) ==
    LET p1 == [p EXCEPT !.rot.w = @ + AngleStep]
        v == get_vert(p1)
        g1 == buffer_data(g, "Array", Flatten(v))
        g2 == buffer_data(g1, "ElementArray", Flatten(p1.mesh[2]))
    IN  [g |-> g2, pyramid |-> p1, vert |-> v]

----------------------------------------------------------------------------
(* CameraSettingsBuilder of core/camera.rs *)

\* Option: None and Some(x)
None == <<>>
Some(x) == <<x>>

\* the f32 literals of CameraSettingsBuilder::new, in tenths
DefaultFov == 450
DefaultSensitivity == 10
DefaultNearPlane == 1
DefaultFarPlane == 1000

\* the f32 literals of CameraSettingsBuilder::build, in tenths
BuildFov == 450
BuildNearPlane == 1
BuildFarPlane == 1000

\* the values the setters are called with
ScreenSizes == {800, 600}
Windows == {"win1", "win2"}
ShaderPrograms == {"shader1", "shader2"}
FovPool == {DefaultFov, 900}
SensitivityPool == {DefaultSensitivity, 5}
NearPlanePool == {DefaultNearPlane, 5}
FarPlanePool == {DefaultFarPlane, 500}

\* CameraSettingsBuilder::new
CameraSettingsBuilder_new ==
    [screen_width |-> None, screen_height |-> None, fov |-> DefaultFov,
     win |-> None, sensitivity |-> DefaultSensitivity,
     near_plane |-> DefaultNearPlane, far_plane |-> DefaultFarPlane,
     shader_program |-> None]

\* the setters
Builder_screen_width(b, screen_width) == [b EXCEPT !.screen_width = Some(screen_width)]
Builder_screen_height(b, screen_height) == [b EXCEPT !.screen_height = Some(screen_height)]
Builder_fov(b, fov) == [b EXCEPT !.fov = fov]
Builder_sensitivity(b, sensitivity) == [b EXCEPT !.sensitivity = sensitivity]
Builder_win(b, win) == [b EXCEPT !.win = Some(win)]
Builder_near_plane(b, near_plane) == [b EXCEPT !.near_plane = near_plane]
Builder_far_plane(b, far_plane) == [b EXCEPT !.far_plane = far_plane]
Builder_shader_program(b, shader_program) == [b EXCEPT !.shader_program = Some(shader_program)]

\* no call of build() yet
NoSettings ==
    [kind |-> "none", msg |-> "", screen_width |-> 0, screen_height |-> 0, fov |-> 0,
     sensitivity |-> 0, win |-> "", near_plane |-> 0, far_plane |-> 0,
     shader_program |-> ""]

\* a failed expect(msg) in build()
BuildPanic(msg) == [NoSettings EXCEPT !.kind = "panic", !.msg = msg]

\* build() that takes 0 and "" for a required argument that was not set
build_unwrap_or_default(b) ==
    LET int(o) == IF o = None THEN 0 ELSE o[1]
        ref(o) == IF o = None THEN "" ELSE o[1]
    IN  [self |-> b,
         ret |-> [kind |-> "Ok", msg |-> "",
                  screen_width |-> int(b.screen_width),
                  screen_height |-> int(b.screen_height),
                  fov |-> BuildFov, sensitivity |-> b.sensitivity,
                  win |-> ref(b.win),
                  near_plane |-> BuildNearPlane, far_plane |-> BuildFarPlane,
                  shader_program |-> ref(b.shader_program)]]

\* CameraSettingsBuilder::build(&self): the fields of the struct literal are
\* evaluated in the order written, so the first missing argument in that order
\* is the one whose expect() panics.  The result holds the builder after the
\* call and what the call returned
build(b) ==
    [self |-> b,
     ret |->
        IF b.screen_width = None
        THEN BuildPanic("Error: argument screen width is not satisfied")
        ELSE IF b.screen_height = None
        THEN BuildPanic("Error: argument screen height is not satisfied")
        ELSE IF b.win = None
        THEN BuildPanic("Error: argument window is not satisfied")
        ELSE IF b.shader_program = None
        THEN BuildPanic("Error: argument shadeer program is not satisfied")
        ELSE [kind |-> "Ok", msg |-> "",
              screen_width |-> b.screen_width[1],
              screen_height |-> b.screen_height[1],
              fov |-> BuildFov, sensitivity |-> b.sensitivity,
              win |-> b.win[1],
              near_plane |-> BuildNearPlane, far_plane |-> BuildFarPlane,
              shader_program |-> b.shader_program[1]]]

----------------------------------------------------------------------------
(* StateOfMouse of core/mouse.rs *)

\* the two variants of the enum
Free == <<"Free">>
Locked(v) == <<"Locked", v>>

\* the Vec2 values switch is called with
Vec2Pool == {<<0, 0>>, <<400, 300>>, <<1, 2>>}

\* switch that locks again when called on Locked
switch_always_locks(s, on_locked) ==
    [self |-> s, ret |-> Locked(on_locked)]

\* StateOfMouse::switch(&self, on_locked).  The result holds the receiver
\* after the call and the value returned
switch(s, on_locked) ==
    [self |-> s,
     ret |-> IF s[1] = "Locked" THEN Free ELSE Locked(on_locked)]

----------------------------------------------------------------------------
(* Mouse of core/mouse.rs *)

\* the Durations get_pressed_cooldown is called with, in clock units
Cooldowns == {0, 1, 2}

\* MouseState::button_pressed at the indices 1, 2, 3 the wrapper reads
ButtonStates == {<<a, b, c>> : a \in BOOLEAN, b \in BOOLEAN, c \in BOOLEAN}

\* Mouse::new at time now
Mouse_new(button_pressed, st, now) ==
    [mouse |-> [button_pressed |-> button_pressed], state |-> st, last_pressed |-> now]

\* Mouse::get_pressed(&mut self): the buttons pressed, in the order left, right,
\* middle; last_pressed becomes the time read after a push (now).  The result
\* holds the Mouse after the call and the value returned
get_pressed(m, now) ==
    LET bp == m.mouse.button_pressed
        pushed == (IF bp[1] THEN <<"LeftMouse">> ELSE <<>>)
                  \o (IF bp[2] THEN <<"RightMouse">> ELSE <<>>)
                  \o (IF bp[3] THEN <<"MiddleMouse">> ELSE <<>>)
    IN  [self |-> IF pushed # <<>> THEN [m EXCEPT !.last_pressed = now] ELSE m,
         ret |-> pushed]

\* get_pressed_cooldown that also lets a call through when exactly the cooldown
\* has elapsed
get_pressed_cooldown_inclusive(m, cooldown, at, now) ==
    IF at - m.last_pressed >= cooldown
    THEN [self |-> get_pressed(m, now).self, ret |-> Some(get_pressed(m, now).ret)]
    ELSE [self |-> m, ret |-> None]

\* Mouse::get_pressed_cooldown(&mut self, cooldown): elapsed() is read at the
\* time at, the time in get_pressed at the time now
get_pressed_cooldown(m, cooldown, at, now) ==
    IF at - m.last_pressed > cooldown
    THEN [self |-> get_pressed(m, now).self, ret |-> Some(get_pressed(m, now).ret)]
    ELSE [self |-> m, ret |-> None]

\* the cooldown of Camera::on_mouse, Duration::from_millis(100): one clock unit
\* (the clock counts tenths of a second)
OnMouseCooldown == 1

\* world.env.win_size, in pixels
WinSizes == {<<800, 600>>, <<641, 481>>}

\* win_size / 2.0: coordinates are kept in half pixels, so the half of a pixel
\* count is that count of half pixels
Half(win_size) == win_size

\* x as i32, for a coordinate x in half pixels that is not negative: the whole
\* pixels, the fraction cut off
AsI32(x) == x \div 2

\* the for_each of on_mouse with the keys taken from the last to the first
RECURSIVE ApplyKeys_reverse(_, _, _, _)
ApplyKeys_reverse(st, keys, i, win_size) ==
    IF i > Len(keys) THEN st
    ELSE LET key == keys[Len(keys) + 1 - i]
         IN  ApplyKeys_reverse(IF key = "LeftMouse" THEN Locked(Half(win_size))
                               ELSE IF key = "RightMouse" THEN Free
                               ELSE st,
                               keys, i + 1, win_size)

\* the for_each of on_mouse over the keys returned, from the i-th on: the state
\* after them
RECURSIVE ApplyKeys(_, _, _, _)
ApplyKeys(st, keys, i, win_size) ==
    IF i > Len(keys) THEN st
    ELSE ApplyKeys(IF keys[i] = "LeftMouse" THEN Locked(Half(win_size))
                   ELSE IF keys[i] = "RightMouse" THEN Free
                   ELSE st,
                   keys, i + 1, win_size)

\* Camera::on_mouse: get_pressed_cooldown, the keys applied to the state, and
\* if the state is Locked then the cursor is warped and the MouseState read
\* anew (button_pressed).  The result holds the Mouse after the call, what
\* get_pressed_cooldown returned and the arguments of warp_mouse_in_window
on_mouse(m, win_size, at, now, button_pressed) ==
    LET r == get_pressed_cooldown(m, OnMouseCooldown, at, now)
        st == IF r.ret = None THEN r.self.state
              ELSE ApplyKeys(r.self.state, r.ret[1], 1, win_size)
        m1 == [r.self EXCEPT !.state = st]
    IN  IF st[1] = "Locked"
        THEN [self |-> [m1 EXCEPT !.mouse.button_pressed = button_pressed],
              ret |-> r.ret,
              warp |-> Some(<<AsI32(st[2][1]), AsI32(st[2][2])>>)]
        ELSE [self |-> m1, ret |-> r.ret, warp |-> None]

\* no call yet
NoCall ==
    [call |-> "none", cooldown |-> 0, at |-> 0, before |-> 0, prev_report |-> None,
     ret |-> None]

----------------------------------------------------------------------------
(* Texture of graphics/texture.rs *)

\* the names Texture::new inserts into the parameter table
KnownParams ==
    {"GL_DEPTH_COMPONENT", "GL_STENCIL_INDEX", "GL_TEXTURE_BASE_LEVEL",
     "GL_TEXTURE_COMPARE_FUNC", "GL_TEXTURE_COMPARE_MODE", "GL_TEXTURE_LOD_BIAS",
     "GL_TEXTURE_MIN_FILTER", "GL_TEXTURE_MAG_FILTER", "GL_TEXTURE_MIN_LOD",
     "GL_TEXTURE_MAX_LOD", "GL_TEXTURE_SWIZZLE_R", "GL_TEXTURE_SWIZZLE_G",
     "GL_TEXTURE_SWIZZLE_B", "GL_TEXTURE_SWIZZLE_A", "GL_TEXTURE_WRAP_S",
     "GL_TEXTURE_WRAP_T", "GL_TEXTURE_WRAP_R", "GL_TEXTURE_BORDER_COLOR",
     "GL_TEXTURE_SWIZZLE_RGBA"}

\* MultiSingularNumber: None, Number(Integer | Float | UsInteger), Array(...)
MsnNone == <<"None">>
MsnValues ==
    {MsnNone, <<"Number", "Integer", 9729>>, <<"Number", "UsInteger", 1>>,
     <<"Array", "Float", <<1, 0, 0, 1>>>>}

\* the names from_image is given: two the table knows and one it does not
ParamNames == {"GL_TEXTURE_MIN_FILTER", "GL_TEXTURE_BORDER_COLOR", "GL_TEXTURE_WRAP_Q"}

\* the parameter maps from_image is given
ParamMaps == UNION {[keys -> MsnValues] : keys \in SUBSET ParamNames}

\* the orders in which a HashMap may hand out the keys S
Orders(S) ==
    {o \in [1..Cardinality(S) -> S] : \A i, j \in 1..Cardinality(S) : o[i] = o[j] => i = j}

\* a GL call of the texture wrapper
TexCall(fn, args) == [fn |-> fn, args |-> args]

\* Texture::new: glGenTextures and the table with every known name at None
Texture_new(id) ==
    [id |-> id, params |-> [n \in KnownParams |-> MsnNone], texture_type |-> None]

\* Texture::texture_param_to_u32
texture_param_to_u32(in_str) ==
    IF in_str \in KnownParams
    THEN [kind |-> "Ok", val |-> <<"GLenum", in_str>>, msg |-> ""]
    ELSE [kind |-> "Err", val |-> <<>>, msg |-> "not found"]

\* the loop of Texture::set_params over the table in the order o, from the
\* i-th key: one glTexParameter* call per value that is not None; a
\* Number::UsInteger panics
RECURSIVE set_params_from(_, _, _, _)
set_params_from(t, o, i, log) ==
    IF i > Len(o) THEN [kind |-> "Ok", log |-> log]
    ELSE LET value == t.params[o[i]]
             name == texture_param_to_u32(o[i]).val
             ty == t.texture_type[1]
         IN  IF value = MsnNone THEN set_params_from(t, o, i + 1, log)
             ELSE IF value[1] = "Number" /\ value[2] = "UsInteger"
             THEN [kind |-> "panic", log |-> log]
             ELSE set_params_from(t, o, i + 1,
                      Append(log, TexCall("glTexParameter", <<ty, name, value>>)))

\* the loop of from_image over the given map in the order o, from the i-th
\* key: the test is made on the given map (params.contains_key), which holds
\* every key it is iterated over, so an unknown name reaches get_mut(..).unwrap()
RECURSIVE copy_params_from(_, _, _, _)
copy_params_from(t, params, o, i) ==
    IF i > Len(o) THEN [kind |-> "Ok", t |-> t]
    ELSE IF o[i] \in DOMAIN params
         THEN IF o[i] \in DOMAIN t.params
              THEN copy_params_from([t EXCEPT !.params[o[i]] = params[o[i]]],
                                    params, o, i + 1)
              ELSE [kind |-> "panic", t |-> t]
         ELSE [kind |-> "Err", t |-> t]

\* Texture::from_image(texture_unit, texture_type, params, lod, img); o1 and o2
\* are the orders in which the two HashMaps are iterated.  The result holds the
\* texture (if one is returned), how the call ended and the GL calls made
from_image(id, texture_unit, texture_type, params, lod, o1, o2) ==
    LET log0 == <<TexCall("glActiveTexture", <<texture_unit>>),
                  TexCall("glGenTextures", <<id>>),
                  TexCall("glBindTexture", <<texture_type, id>>)>>
        t0 == [Texture_new(id) EXCEPT !.texture_type = Some(texture_type)]
        c == copy_params_from(t0, params, o1, 1)
        sp == set_params_from(c.t, o2, 1, log0)
    IN  IF c.kind = "Err"
        THEN [texture |-> <<>>, kind |-> "Err",
              msg |-> "Error: Unknown parameter", log |-> log0]
        ELSE IF c.kind = "panic"
        THEN [texture |-> <<>>, kind |-> "panic",
              msg |-> "called Option::unwrap() on a None value", log |-> log0]
        ELSE IF sp.kind = "panic"
        THEN [texture |-> <<>>, kind |-> "panic",
              msg |-> "For reasons beyond my understanding texture parameters for u8 only exist in vector commands",
              log |-> sp.log]
        ELSE [texture |-> <<c.t>>, kind |-> "Ok", msg |-> "",
              log |-> sp.log \o <<TexCall("glTexImage2D", <<texture_type, lod>>),
                                  TexCall("glGenerateMipmap", <<texture_type>>)>>]

\* no call of from_image yet
NoTexCall == [kind |-> "none", params |-> <<>>, msg |-> "", log |-> <<>>]

----------------------------------------------------------------------------
(* Shader and ShaderProgram of graphics/shader.rs *)

\* the GL's shader and program objects: objs[id] is the object named id
GlslInit == [objs |-> <<>>, log |-> <<>>]

\* a GL call on shader or program objects
GlslCall(g, fn, args) == [g EXCEPT !.log = Append(@, [fn |-> fn, args |-> args])]

\* glCreateShader / glCreateProgram: a new name, or 0 when the GL cannot
\* allocate one (ok = FALSE)
glCreate(g, fn, ty, ok) ==
    LET g1 == GlslCall(g, fn, <<ty>>)
    IN  IF ok
        THEN [g |-> [g1 EXCEPT !.objs = Append(@, [ty |-> ty, compiled |-> FALSE,
                                                   attached |-> {}, linked |-> FALSE,
                                                   deleted |-> FALSE])],
              id |-> Len(g.objs) + 1]
        ELSE [g |-> g1, id |-> 0]

\* Shader::delete / ShaderProgram::delete: the object is marked for deletion
glDelete(g, fn, id) == [GlslCall(g, fn, <<id>>) EXCEPT !.objs[id].deleted = TRUE]

\* the sources from_vert_frag is given: whether the GL compiles them, and the
\* info log it writes if not
VertSources == {[compiles |-> TRUE, log |-> ""], [compiles |-> FALSE, log |-> "0:1: syntax error"]}
FragSources == {[compiles |-> TRUE, log |-> ""], [compiles |-> FALSE, log |-> "0:2: undeclared"]}

\* Shader::from_source that returns the shader without reading the compile status
Shader_from_source_unchecked(g, ty, source, alloc) ==
    LET c == glCreate(g, "glCreateShader", ty, alloc)
    IN  IF c.id = 0
        THEN [g |-> c.g, kind |-> "Err", id |-> 0, msg |-> "Unable to allocate new shader"]
        ELSE [g |-> GlslCall(GlslCall(c.g, "glShaderSource", <<c.id>>),
                             "glCompileShader", <<c.id>>),
              kind |-> "Ok", id |-> c.id, msg |-> ""]

\* Shader::from_source(ty, source): new, set_source, compile, compile_success;
\* on a compile failure info_log and delete
Shader_from_source(g, ty, source, alloc) ==
    LET c == glCreate(g, "glCreateShader", ty, alloc)
        g1 == GlslCall(c.g, "glShaderSource", <<c.id>>)
        g2 == [GlslCall(g1, "glCompileShader", <<c.id>>)
                  EXCEPT !.objs[c.id].compiled = source.compiles]
        g3 == GlslCall(g2, "glGetShaderiv", <<c.id, "GL_COMPILE_STATUS">>)
        g4 == GlslCall(GlslCall(g3, "glGetShaderiv", <<c.id, "GL_INFO_LOG_LENGTH">>),
                       "glGetShaderInfoLog", <<c.id>>)
    IN  IF c.id = 0
        THEN [g |-> c.g, kind |-> "Err", id |-> 0, msg |-> "Unable to allocate new shader"]
        ELSE IF g3.objs[c.id].compiled
        THEN [g |-> g3, kind |-> "Ok", id |-> c.id, msg |-> ""]
        ELSE [g |-> glDelete(g4, "glDeleteShader", c.id), kind |-> "Err", id |-> 0,
              msg |-> source.log]

\* the rest of from_vert_frag once both shaders are compiled: attach, link,
\* delete the shaders, link_success; on a link failure info_log and delete
LinkProgram(g, p, v, f, link) ==
    LET g1 == GlslCall(g, "glAttachShader", <<p, v>>)
        g2 == GlslCall(g1, "glAttachShader", <<p, f>>)
        g3 == [GlslCall(g2, "glLinkProgram", <<p>>)
                  EXCEPT !.objs[p].attached = {v, f}, !.objs[p].linked = link]
        g4 == glDelete(g3, "glDeleteShader", v)
        g5 == glDelete(g4, "glDeleteShader", f)
        g6 == GlslCall(g5, "glGetProgramiv", <<p, "GL_LINK_STATUS">>)
        g7 == GlslCall(GlslCall(g6, "glGetProgramiv", <<p, "GL_INFO_LOG_LENGTH">>),
                       "glGetProgramInfoLog", <<p>>)
    IN  IF g6.objs[p].linked
        THEN [g |-> g6, kind |-> "Ok", id |-> p, msg |-> <<>>]
        ELSE [g |-> glDelete(g7, "glDeleteProgram", p), kind |-> "Err", id |-> 0,
              msg |-> <<"Program Link Error: ", "link failed">>]

\* ShaderProgram::from_vert_frag(vert, frag); each ? returns at once.  The
\* result holds the GL after the call and what the call returned
from_vert_frag(g, vert, frag, palloc, valloc, falloc, link) ==
    LET p == glCreate(g, "glCreateProgram", "Program", palloc)
        v == Shader_from_source(p.g, "Vertex", vert, valloc)
        f == Shader_from_source(v.g, "Fragment", frag, falloc)
    IN  IF p.id = 0
        THEN [g |-> p.g, kind |-> "Err", id |-> 0, msg |-> <<"Couldn't allocate a program">>]
        ELSE IF v.kind = "Err"
        THEN [g |-> v.g, kind |-> "Err", id |-> 0, msg |-> <<"Vertex Compile Error: ", v.msg>>]
        ELSE IF f.kind = "Err"
        THEN [g |-> f.g, kind |-> "Err", id |-> 0, msg |-> <<"Fragment Compile Error: ", f.msg>>]
        ELSE LinkProgram(f.g, p.id, v.id, f.id, link)

\* no call of from_vert_frag yet
NoProgram ==
    [n |-> 0, kind |-> "none", id |-> 0, msg |-> <<>>, first |-> 1,
     given |-> [vert |-> TRUE, frag |-> TRUE, palloc |-> TRUE, valloc |-> TRUE,
                falloc |-> TRUE, link |-> TRUE]]

----------------------------------------------------------------------------
(* World::update and the objects of the demo program (main.rs) *)

\* the step of the camera per key and frame: 0.01, the unit of the camera position
KeyStep == 1

\* what DeviceState::get_keys returns in a frame
KeyLists == {<<>>, <<"W">>, <<"D", "Space">>, <<"Q">>}

\* the frame in progress: the OpenGL state, the camera position, the pyramid,
\* the vertices get_vert returned, and the functions called so far
Frame(g, pos, p) == [g |-> g, pos |-> pos, pyramid |-> p, vert |-> <<>>, trace |-> <<>>]

\* Camera::matrix: the matrix of the camera as it stands goes to the uniform
Camera_matrix(w) ==
    [w EXCEPT !.g = Logged(Logged(@, "glGetUniformLocation", <<0>>, <<>>),
                           "glUniformMatrix4fv", <<0>>, w.pos),
              !.trace = Append(@, "Camera::matrix")]

\* the loop of Camera::on_key over the keys from the i-th on
RECURSIVE on_key_from(_, _, _)
on_key_from(pos, keys, i) ==
    IF i > Len(keys) THEN pos
    ELSE LET key == keys[i]
             moved ==
                 IF key = "W" THEN [pos EXCEPT ![3] = @ + KeyStep]
                 ELSE IF key = "A" THEN [pos EXCEPT ![1] = @ + KeyStep]
                 ELSE IF key = "S" THEN [pos EXCEPT ![3] = @ - KeyStep]
                 ELSE IF key = "D" THEN [pos EXCEPT ![1] = @ - KeyStep]
                 ELSE IF key \in {"LShift", "RShift"} THEN [pos EXCEPT ![2] = @ - KeyStep]
                 ELSE IF key = "Space" THEN [pos EXCEPT ![2] = @ + KeyStep]
                 ELSE pos
         IN  on_key_from(moved, keys, i + 1)

\* Camera::on_key
Camera_on_key(w, keys) ==
    [w EXCEPT !.pos = on_key_from(@, keys, 1), !.trace = Append(@, "Camera::on_key")]

\* Camera::update
Camera_update(w, keys) == Camera_on_key(Camera_matrix(w), keys)

\* Pyramid::update, as the object update of the world
Object_update_Pyramid(w) ==
    LET r == Pyramid_update(w.g, w.pyramid)
    IN  [w EXCEPT !.g = r.g, !.pyramid = r.pyramid, !.vert = r.vert,
                  !.trace = Append(@, "Pyramid::update")]

\* the closure of GameObject::update with the pyramid updated before the camera
GameObject_update_pyramid_first(w, keys) == Camera_update(Object_update_Pyramid(w), keys)

\* the closure GameObject::update returns: Camera::update, then Pyramid::update
GameObject_update(w, keys) == Object_update_Pyramid(Camera_update(w, keys))

\* World::update: self.objects.update()(self)
World_update(w, keys) == GameObject_update(w, keys)

\* the camera of the demo starts at (0, 0, -2): -200 steps
CameraStart == <<0, 0, -200>>

----------------------------------------------------------------------------
(* The state machine *)

Init ==
    /\ mesh = <<>>
    /\ ret = RetInit
    /\ pyramid = <<>>
    /\ out = <<>>
    /\ gl = GlInit
    /\ builder = CameraSettingsBuilder_new
    /\ settings = NoSettings
    /\ op = "new"
    /\ state = Free
    /\ receiver = Free
    /\ hist = <<>>
    /\ clock = 0
    /\ mouse = Mouse_new(<<FALSE, FALSE, FALSE>>, Free, 0)
    /\ pressed = NoCall
    /\ timeline = [created |-> 0, last_report |-> None]
    /\ texture = <<>>
    /\ tex = NoTexCall
    /\ glsl = GlslInit
    /\ program = NoProgram
    /\ world = [pos |-> CameraStart, keys |-> <<>>, trace |-> <<>>]
    /\ ticks = [a0 |-> 0, n |-> 0]
    /\ ecs = [meshes |-> <<>>, poses |-> <<>>, ran |-> "none"]
    /\ onmouse = [called |-> FALSE, win_size |-> <<0, 0>>, before |-> Free, warp |-> None]

\* nothing has been constructed yet
Fresh == ret.kind = "none" /\ pyramid = <<>> /\ mesh = <<>>

\* a call of Mesh::new of ECS/mesh.rs
MeshNew ==
    /\ Fresh
    /\ \E vert \in VertexLists, vert_attr \in Layouts, index \in IndexLists,
          extra \in ExtraBytes, alloc \in 0..3 :
          LET r == Mesh_new(Begin(gl), vert, vert_attr, index,
                            size_of_Vertex(vert, extra), alloc)
          IN  mesh' = r.mesh /\ ret' = r.ret /\ gl' = r.g
    /\ UNCHANGED <<pyramid, out, cameraVars, mouseVars, laterVars>>

\* a call of Mesh::new of core/object.rs
MeshNewObject ==
    /\ Fresh
    /\ \E vert \in VertexLists, vert_attr \in Layouts, index \in IndexLists,
          extra \in ExtraBytes, alloc \in 0..3 :
          LET r == Mesh_new_object(Begin(gl), vert, vert_attr, index,
                                   size_of_Vertex(vert, extra), alloc)
          IN  mesh' = r.mesh /\ ret' = r.ret /\ gl' = r.g
    /\ UNCHANGED <<pyramid, out, cameraVars, mouseVars, laterVars>>

\* Mesh::setup, on a Mesh of ECS/mesh.rs
Setup ==
    /\ mesh # <<>>
    /\ mesh[1].variant = "ECS"
    /\ gl' = setup(Begin(gl), mesh[1])
    /\ UNCHANGED <<mesh, ret, pyramid, out, cameraVars, mouseVars, laterVars>>

\* Mesh::set_vert_attr, on a Mesh of core/object.rs
SetVertAttr ==
    /\ mesh # <<>>
    /\ mesh[1].variant = "core"
    /\ gl' = set_vert_attr(Begin(gl), mesh[1])
    /\ UNCHANGED <<mesh, ret, pyramid, out, cameraVars, mouseVars, laterVars>>

\* Pyramid::new; a failed expect() aborts the program
PyramidNew ==
    /\ Fresh
    /\ \E pos \in PosPool, rot \in Rots, m \in PyramidMeshes, alloc \in 0..3 :
          LET r == Pyramid_new(Begin(gl), pos, rot, m, alloc)
          IN  /\ pyramid' = r.pyramid
              /\ gl' = r.g
              /\ ret' = IF r.pyramid = <<>>
                        THEN Ret("panic", "pyramid", <<>>, <<>>, <<>>,
                                 [text |-> r.msg, vals |-> <<>>])
                        ELSE Ret("Ok", "pyramid", m[1], <<>>, m[2], NoErr)
    /\ UNCHANGED <<mesh, out, cameraVars, mouseVars, laterVars>>

\* one run of the update system over the mesh: Mesh::update of ECS/mesh.rs with
\* the Position and the Rotation of its entity
Update ==
    /\ mesh # <<>>
    /\ mesh[1].variant = "ECS"
    /\ \E pose \in EcsPoses :
          gl' = Mesh_update(Begin(gl), mesh[1], pose.pos, pose.rot)
    /\ UNCHANGED <<mesh, ret, pyramid, out, cameraVars, mouseVars, laterVars>>

\* Mesh::update_mesh, on a Mesh of core/object.rs
UpdateMesh ==
    /\ mesh # <<>>
    /\ mesh[1].variant = "core"
    /\ gl' = update_mesh(Begin(gl), mesh[1])
    /\ UNCHANGED <<mesh, ret, pyramid, out, cameraVars, mouseVars, laterVars>>

\* GetVert in which get_vert uploads what it computed
GetVert_uploading ==
    /\ pyramid # <<>>
    /\ out' = <<get_vert(pyramid[1])>>
    /\ gl' = buffer_data(Begin(gl), "Array", Flatten(get_vert(pyramid[1])))
    /\ UNCHANGED <<mesh, ret, pyramid, cameraVars, mouseVars, laterVars>>

\* a call of Pyramid::get_vert
GetVert ==
    /\ pyramid # <<>>
    /\ out' = <<get_vert(pyramid[1])>>
    /\ gl' = Begin(gl)
    /\ UNCHANGED <<mesh, ret, pyramid, cameraVars, mouseVars, laterVars>>

\* one tick: Pyramid::update
PyramidUpdate ==
    /\ pyramid # <<>>
    /\ pyramid[1].rot.w + AngleStep <= MaxAngle
    /\ LET r == Pyramid_update(Begin(gl), pyramid[1])
       IN  pyramid' = <<r.pyramid>> /\ out' = <<r.vert>> /\ gl' = r.g
    /\ UNCHANGED <<mesh, ret, cameraVars, mouseVars, laterVars>>

Next ==
    \/ MeshNew
    \/ MeshNewObject
    \/ Setup
    \/ SetVertAttr
    \/ Update
    \/ UpdateMesh
    \/ PyramidNew
    \/ GetVert
    \/ PyramidUpdate

Spec == Init /\ [][Next]_vars

----------------------------------------------------------------------------
(* The camera settings builder *)

SetScreenWidth ==
    /\ \E v \in ScreenSizes : builder' = Builder_screen_width(builder, v)
    /\ op' = "screen_width"
    /\ UNCHANGED <<settings, meshVars, mouseVars, laterVars>>

SetScreenHeight ==
    /\ \E v \in ScreenSizes : builder' = Builder_screen_height(builder, v)
    /\ op' = "screen_height"
    /\ UNCHANGED <<settings, meshVars, mouseVars, laterVars>>

SetFov ==
    /\ \E v \in FovPool : builder' = Builder_fov(builder, v)
    /\ op' = "fov"
    /\ UNCHANGED <<settings, meshVars, mouseVars, laterVars>>

SetSensitivity ==
    /\ \E v \in SensitivityPool : builder' = Builder_sensitivity(builder, v)
    /\ op' = "sensitivity"
    /\ UNCHANGED <<settings, meshVars, mouseVars, laterVars>>

SetWin ==
    /\ \E v \in Windows : builder' = Builder_win(builder, v)
    /\ op' = "win"
    /\ UNCHANGED <<settings, meshVars, mouseVars, laterVars>>

SetNearPlane ==
    /\ \E v \in NearPlanePool : builder' = Builder_near_plane(builder, v)
    /\ op' = "near_plane"
    /\ UNCHANGED <<settings, meshVars, mouseVars, laterVars>>

SetFarPlane ==
    /\ \E v \in FarPlanePool : builder' = Builder_far_plane(builder, v)
    /\ op' = "far_plane"
    /\ UNCHANGED <<settings, meshVars, mouseVars, laterVars>>

SetShaderProgram ==
    /\ \E v \in ShaderPrograms : builder' = Builder_shader_program(builder, v)
    /\ op' = "shader_program"
    /\ UNCHANGED <<settings, meshVars, mouseVars, laterVars>>

\* a call of build().  A panic ends the program; the model goes on with the
\* builder as the call left it, as a caller that catches the panic would
Build ==
    /\ LET r == build(builder)
       IN  builder' = r.self /\ settings' = r.ret
    /\ op' = "build"
    /\ UNCHANGED <<meshVars, mouseVars, laterVars>>

NextCamera ==
    \/ SetScreenWidth
    \/ SetScreenHeight
    \/ SetFov
    \/ SetSensitivity
    \/ SetWin
    \/ SetNearPlane
    \/ SetFarPlane
    \/ SetShaderProgram
    \/ Build

SpecCamera == Init /\ [][NextCamera]_vars

----------------------------------------------------------------------------
(* The state of the mouse *)

\* state = state.switch(on_locked), on a copy of the state (StateOfMouse is Copy)
Switch ==
    /\ Len(hist) < MaxSwitches
    /\ \E on_locked \in Vec2Pool :
          LET r == switch(state, on_locked)
          IN  /\ receiver' = r.self
              /\ state' = r.ret
              /\ hist' = Append(hist, on_locked)
    /\ UNCHANGED <<meshVars, cameraVars, laterVars>>

NextMouse == Switch

SpecMouse == Init /\ [][NextMouse]_vars

----------------------------------------------------------------------------
(* The mouse wrapper and its cooldown *)

\* time passes
Advance ==
    /\ clock < MaxTime
    /\ clock' = clock + 1
    /\ UNCHANGED <<mouse, pressed, timeline, meshVars, cameraVars, mouseVars, notClick>>

\* the owner of the Mouse stores a new MouseState in its public field mouse
Poll ==
    /\ \E bp \in ButtonStates : mouse' = [mouse EXCEPT !.mouse.button_pressed = bp]
    /\ UNCHANGED <<clock, pressed, timeline, meshVars, cameraVars, mouseVars, notClick>>

\* what pressed and timeline record of a call made at the time clock that read
\* the time d later and returned r
Recorded(name, cooldown, d, r) ==
    /\ pressed' = [call |-> name, cooldown |-> cooldown, at |-> clock,
                   before |-> mouse.last_pressed,
                   prev_report |-> timeline.last_report, ret |-> r.ret]
    /\ timeline' = IF r.ret # None /\ r.ret[1] # <<>>
                   THEN [timeline EXCEPT !.last_report = Some(clock + d)]
                   ELSE timeline
    /\ clock' = clock + d

\* a call of get_pressed
GetPressed ==
    /\ \E d \in 0..1 :
          /\ clock + d <= MaxTime
          /\ LET r == get_pressed(mouse, clock + d)
             IN  /\ mouse' = r.self
                 /\ Recorded("get_pressed", 0, d, [self |-> r.self, ret |-> Some(r.ret)])
    /\ UNCHANGED <<meshVars, cameraVars, mouseVars, notClick>>

\* a call of get_pressed_cooldown
GetPressedCooldown ==
    /\ \E cooldown \in Cooldowns, d \in 0..1 :
          /\ clock + d <= MaxTime
          /\ LET r == get_pressed_cooldown(mouse, cooldown, clock, clock + d)
             IN  /\ mouse' = r.self
                 /\ Recorded("get_pressed_cooldown", cooldown, d, r)
    /\ UNCHANGED <<meshVars, cameraVars, mouseVars, notClick>>

NextCooldown ==
    \/ Advance
    \/ Poll
    \/ GetPressed
    \/ GetPressedCooldown

SpecCooldown == Init /\ [][NextCooldown]_vars

----------------------------------------------------------------------------
(* The mouse handler of the camera *)

\* a call of Camera::on_mouse
OnMouse ==
    /\ \E win_size \in WinSizes, d \in 0..1, bp \in ButtonStates :
          /\ clock + d <= MaxTime
          /\ LET r == on_mouse(mouse, win_size, clock, clock + d, bp)
             IN  /\ mouse' = r.self
                 /\ Recorded("get_pressed_cooldown", OnMouseCooldown, d, r)
                 /\ onmouse' = [called |-> TRUE, win_size |-> win_size,
                                before |-> mouse.state, warp |-> r.warp]
    /\ UNCHANGED <<meshVars, cameraVars, mouseVars, notOnMouse>>

\* Advance and Poll with the record of the last call of on_mouse kept
NextOnMouse ==
    \/ Advance
    \/ Poll
    \/ OnMouse

SpecOnMouse == Init /\ [][NextOnMouse]_vars

----------------------------------------------------------------------------
(* Textures *)

\* a call of Texture::from_image with a parameter map; the table is iterated in
\* some order of its keys
FromImage ==
    /\ \E params \in ParamMaps :
       \E o1 \in Orders(DOMAIN params), o2 \in Orders(KnownParams \cap ParamNames) :
          LET r == from_image(1, "GL_TEXTURE0", "GL_TEXTURE_2D", params, 0, o1, o2)
          IN  /\ texture' = r.texture
              /\ tex' = [kind |-> r.kind, params |-> params, msg |-> r.msg, log |-> r.log]
    /\ UNCHANGED <<meshVars, cameraVars, mouseVars, notTexture>>

NextTexture == FromImage

SpecTexture == Init /\ [][NextTexture]_vars

----------------------------------------------------------------------------
(* Shader programs *)

\* a call of ShaderProgram::from_vert_frag; the GL decides whether it can
\* allocate each object and whether the program links
FromVertFrag ==
    /\ program.n < MaxPrograms
    /\ \E vert \in VertSources, frag \in FragSources,
          palloc \in BOOLEAN, valloc \in BOOLEAN, falloc \in BOOLEAN, link \in BOOLEAN :
          LET r == from_vert_frag([glsl EXCEPT !.log = <<>>], vert, frag,
                                  palloc, valloc, falloc, link)
          IN  /\ glsl' = r.g
              /\ program' = [n |-> program.n + 1, kind |-> r.kind, id |-> r.id,
                             msg |-> r.msg, first |-> Len(glsl.objs) + 1,
                             given |-> [vert |-> vert.compiles, frag |-> frag.compiles,
                                        palloc |-> palloc, valloc |-> valloc,
                                        falloc |-> falloc, link |-> link]]
    /\ UNCHANGED <<meshVars, cameraVars, mouseVars, notShader>>

NextShader == FromVertFrag

SpecShader == Init /\ [][NextShader]_vars

----------------------------------------------------------------------------
(* The frames of the demo program *)

\* main builds the pyramid of the world: Pyramid::new at the origin, with one of
\* the smaller meshes
WorldNew ==
    /\ Fresh
    /\ \E rot \in Rots, m \in PyramidMeshes :
          /\ Len(m[1]) <= 2 /\ Len(m[2]) <= 1
          /\ LET r == Pyramid_new(Begin(gl), <<0, 0, 0>>, rot, m, 3)
             IN  /\ pyramid' = r.pyramid
                 /\ gl' = r.g
                 /\ ret' = Ret("Ok", "pyramid", m[1], <<>>, m[2], NoErr)
                 /\ ticks' = [a0 |-> rot.w, n |-> 0]
    /\ UNCHANGED <<mesh, out, world, cameraVars, mouseVars, notWorld>>

\* one frame: World::update with the keys that are down
WorldUpdate ==
    /\ pyramid # <<>>
    /\ pyramid[1].rot.w + AngleStep <= MaxAngle
    /\ \E keys \in KeyLists :
          LET w == World_update(Frame(Begin(gl), world.pos, pyramid[1]), keys)
          IN  /\ gl' = w.g
              /\ pyramid' = <<w.pyramid>>
              /\ out' = <<w.vert>>
              /\ world' = [pos |-> w.pos, keys |-> keys, trace |-> w.trace]
    /\ ticks' = [ticks EXCEPT !.n = @ + 1]
    /\ UNCHANGED <<mesh, ret, cameraVars, mouseVars, notWorld>>

NextWorld ==
    \/ WorldNew
    \/ WorldUpdate

SpecWorld == Init /\ [][NextWorld]_vars

----------------------------------------------------------------------------
(* The mesh systems of an ECS world *)

\* the world is filled with entities that have a Mesh
EcsCreate ==
    /\ Fresh
    /\ ecs.ran = "none"
    /\ \E args \in SeqsOf(EcsMeshArgs, 1, MaxMeshes) :
          LET r == EcsMeshes(Begin(gl), args, 1)
          IN  /\ gl' = r.g
              /\ ecs' = [meshes |-> r.meshes, poses |-> <<>>, ran |-> "create"]
    /\ UNCHANGED <<mesh, ret, pyramid, out, cameraVars, mouseVars, notEcs>>

\* one run of the setup system
RunSetup ==
    /\ ecs.ran # "none"
    /\ gl' = setup_system(Begin(gl), ecs.meshes, 1)
    /\ ecs' = [ecs EXCEPT !.ran = "setup", !.poses = <<>>]
    /\ UNCHANGED <<mesh, ret, pyramid, out, cameraVars, mouseVars, notEcs>>

\* one run of the update system, after a run of the setup system
RunUpdate ==
    /\ ecs.ran \in {"setup", "update"}
    /\ \E poses \in [1..Len(ecs.meshes) -> EcsPoses] :
          /\ gl' = update_system(Begin(gl), ecs.meshes, poses, 1)
          /\ ecs' = [ecs EXCEPT !.ran = "update", !.poses = poses]
    /\ UNCHANGED <<mesh, ret, pyramid, out, cameraVars, mouseVars, notEcs>>

NextEcs ==
    \/ EcsCreate
    \/ RunSetup
    \/ RunUpdate

SpecEcs == Init /\ [][NextEcs]_vars

----------------------------------------------------------------------------
(* What the properties are stated with *)

\* ret records a call of one of the two Mesh::new
MeshNewCalled == ret.kind # "none" /\ ret.variant \in {"ECS", "core"}

\* the calls of glVertexAttribPointer among the calls of the last operation
AttrCalls == SelectSeq(gl.log, LAMBDA c : c.fn = "glVertexAttribPointer")

\* the last operation declared the vertex attributes of the mesh
AttrsDeclared == mesh # <<>> /\ AttrCalls # <<>>

\* the position (the first attribute group) and the rest of a pyramid vertex
PosOf(vertex) == SubSeq(vertex, 1, 3)
RestOf(vertex) == SubSeq(vertex, 4, Len(vertex))

\* get_vert has returned out[1] for the pyramid as it is now
Transformed == pyramid # <<>> /\ out # <<>>

Base == pyramid[1].mesh[1]

\* the unit vector along an axis that is parallel to a coordinate axis
UnitAxes ==
    {<<1, 0, 0>>, <<-1, 0, 0>>, <<0, 1, 0>>, <<0, -1, 0>>, <<0, 0, 1>>, <<0, 0, -1>>}

Direction(a) == CHOOSE k \in UnitAxes : k[1] * a[1] + k[2] * a[2] + k[3] * a[3] > 0

\* v turned by one quarter turn about the unit axis k by the right-hand rule:
\* about z, x goes to y; about x, y goes to z; about y, z goes to x
QuarterTurn(v, k) ==
    CASE k = <<1, 0, 0>> -> <<v[1], -v[3], v[2]>>
      [] k = <<-1, 0, 0>> -> <<v[1], v[3], -v[2]>>
      [] k = <<0, 1, 0>> -> <<v[3], v[2], -v[1]>>
      [] k = <<0, -1, 0>> -> <<-v[3], v[2], v[1]>>
      [] k = <<0, 0, 1>> -> <<-v[2], v[1], v[3]>>
      [] k = <<0, 0, -1>> -> <<v[2], -v[1], v[3]>>

RECURSIVE RightHanded(_, _, _)
\* v turned by q quarter turns about the axis a, by the right-hand rule
RightHanded(v, q, a) ==
    IF q = 0 THEN v ELSE RightHanded(QuarterTurn(v, Direction(a)), q - 1, a)

----------------------------------------------------------------------------
(* Properties *)

\* C1: whenever Mesh::new is given a non-empty vertex list and a layout whose
\* sum differs from the component count of the (first) vertex, it returns Err
\* and produces no Mesh.
C1_LayoutMismatchIsErr ==
    (/\ MeshNewCalled
     /\ ret.vert # <<>>
     /\ Sum(ret.vert_attr) # Len(as_list(ret.vert[1])))
    => (ret.kind = "Err" /\ mesh = <<>>)

\* C1 witness: a 5-component vertex with the layout [3, 1] was refused.
C1_Witness ==
    /\ MeshNewCalled
    /\ ret.kind = "Err"
    /\ ret.vert_attr = <<3, 1>>
    /\ Len(as_list(ret.vert[1])) = 5

\* C2: every index stored in a successfully constructed Mesh is less than its
\* vertex count (construction fails when a triangle holds an index that is out
\* of range).
C2_IndicesInRange ==
    mesh # <<>> =>
        \A t \in 1..Len(mesh[1].indicies) : \A k \in 1..3 :
            mesh[1].indicies[t][k] < Len(mesh[1].vertices)

\* C3: in a successfully constructed Mesh the sum of the layout equals the
\* component count of every vertex, not only of the first.
C3_EveryVertexMatchesLayout ==
    mesh # <<>> =>
        \A i \in 1..Len(mesh[1].vertices) :
            Len(as_list(mesh[1].vertices[i])) = Sum(mesh[1].vert_attr)

\* C4: when the mesh binds its vertex attributes, attribute i is declared with
\* layout[i] components at the byte offset 4 * (layout[0] + ... + layout[i-1]).
C4_AttributeOffsets ==
    AttrsDeclared =>
        /\ Len(AttrCalls) = Len(mesh[1].vert_attr)
        /\ \A i \in 1..Len(mesh[1].vert_attr) :
              /\ AttrCalls[i].args[1] = i - 1
              /\ AttrCalls[i].args[2] = mesh[1].vert_attr[i]
              /\ AttrCalls[i].args[4] = 4 * Sum(SubSeq(mesh[1].vert_attr, 1, i - 1))
              /\ \E a \in gl.attribs :
                    /\ a.vao = mesh[1].vao
                    /\ a.index = i - 1
                    /\ a.size = mesh[1].vert_attr[i]
                    /\ a.pointer = 4 * Sum(SubSeq(mesh[1].vert_attr, 1, i - 1))

\* C4 witness: the layout [3, 2] was declared as (offset 0, count 3) and
\* (offset 12, count 2).
C4_Witness ==
    /\ AttrsDeclared
    /\ mesh[1].vert_attr = <<3, 2>>
    /\ \E a \in gl.attribs : a.index = 0 /\ a.pointer = 0 /\ a.size = 3
    /\ \E a \in gl.attribs : a.index = 1 /\ a.pointer = 12 /\ a.size = 2

\* C5: every attribute the mesh declares has the stride 4 * sum(layout),
\* whatever size_of::<Vertex>() is.
C5_StrideIsLayoutSum ==
    AttrsDeclared =>
        \A i \in 1..Len(AttrCalls) : AttrCalls[i].args[3] = 4 * Sum(mesh[1].vert_attr)

\* C6: with the position (0, 0, 0) and the angle 0, about any axis of the model,
\* get_vert returns the base vertices: flattened, exactly the flat base buffer.
C6_ZeroPoseIsIdentity ==
    (/\ Transformed
     /\ pyramid[1].pos = <<0, 0, 0>>
     /\ pyramid[1].rot.w = 0)
    => Flatten(out[1]) = Flatten(Base)

\* C6 witness: get_vert was applied at the zero pose to two vertices.
C6_Witness ==
    /\ Transformed
    /\ pyramid[1].pos = <<0, 0, 0>>
    /\ pyramid[1].rot.w = 0
    /\ Len(out[1]) = 2
    /\ Base[1] # Base[2]

\* C7: with the angle 0 and the position (1, 0, 0), every transformed position
\* is the base position with x increased by exactly 1.
C7_TranslationOnly ==
    (/\ Transformed
     /\ pyramid[1].pos = <<1, 0, 0>>
     /\ pyramid[1].rot.w = 0)
    => \A i \in 1..Len(Base) :
           PosOf(out[1][i]) = <<Base[i][1] + 1, Base[i][2], Base[i][3]>>

\* C8: with zero translation, a position (1, 0, 0) turned by a quarter turn
\* about (0, 1, 0) becomes (0, 0, -1), and every position is turned about the
\* pose axis by the pose angle by the right-hand rule.
C8_RotationRightHanded ==
    (Transformed /\ pyramid[1].pos = <<0, 0, 0>>) =>
        \A i \in 1..Len(Base) :
            /\ (/\ PosOf(Base[i]) = <<1, 0, 0>>
                /\ pyramid[1].rot.xyz = <<0, 1, 0>>
                /\ pyramid[1].rot.w = 1) => PosOf(out[1][i]) = <<0, 0, -1>>
            /\ PosOf(out[1][i]) =
                   RightHanded(PosOf(Base[i]), pyramid[1].rot.w, pyramid[1].rot.xyz)

\* C8 witness: a vertex at (1, 0, 0) was turned by a quarter turn about
\* (0, 1, 0) with zero translation.
C8_Witness ==
    /\ Transformed
    /\ pyramid[1].pos = <<0, 0, 0>>
    /\ pyramid[1].rot = [xyz |-> <<0, 1, 0>>, w |-> 1]
    /\ PosOf(Base[1]) = <<1, 0, 0>>
    /\ PosOf(out[1][1]) = <<0, 0, -1>>

\* C9: for every pose, the components of each output vertex after the position
\* equal those of the base vertex, at the same places in the vertex.
C9_RemainderUnchanged ==
    Transformed =>
        /\ Len(out[1]) = Len(Base)
        /\ \A i \in 1..Len(Base) :
              /\ Len(out[1][i]) = Len(Base[i])
              /\ \A k \in 4..Len(Base[i]) : out[1][i][k] = Base[i][k]

\* C9 witness: a vertex whose position the transform changed kept its texture
\* coordinates.
C9_Witness ==
    /\ Transformed
    /\ pyramid[1].pos # <<0, 0, 0>>
    /\ PosOf(out[1][1]) # PosOf(Base[1])
    /\ RestOf(out[1][1]) = <<7, 8>>

\* C10: for every pose, the transformed position is the base position turned
\* about the origin by the pose rotation and then moved by the pose position.
C10_RotateThenTranslate ==
    Transformed =>
        \A i \in 1..Len(Base) :
            PosOf(out[1][i]) =
                Add(RightHanded(PosOf(Base[i]), pyramid[1].rot.w, pyramid[1].rot.xyz),
                    pyramid[1].pos)

----------------------------------------------------------------------------
(* Properties of the upload and of the constructor's outcome *)

\* the data handed to glBufferData for the target ty (0: the array buffer, 1: the
\* element array buffer) by the last operation, in call order
Uploads(ty) ==
    LET cs == SelectSeq(gl.log, LAMBDA c : c.fn = "glBufferData" /\ c.args[1] = ty)
    IN  [i \in 1..Len(cs) |-> cs[i].data]

\* the last operation was a constructor: only constructors generate names
Constructed == \E i \in 1..Len(gl.log) : gl.log[i].fn = "glGenVertexArrays"

\* C11: the flat vertex buffer handed to the backend has exactly vertex_count
\* times components_per_vertex (the sum of the layout, 5 for the pyramid)
\* elements.
C11_UploadLength ==
    \A i \in 1..Len(Uploads(0)) :
        /\ mesh # <<>> =>
              Len(Uploads(0)[i]) = Len(mesh[1].vertices) * Sum(mesh[1].vert_attr)
        /\ pyramid # <<>> => Len(Uploads(0)[i]) = Len(Base) * 5

\* C12: on every update, the index buffer handed to the backend is the index
\* list given at construction: the same triples in the same order.
C12_IndexUploadUnchanged ==
    \A i \in 1..Len(Uploads(1)) : Uploads(1)[i] = Flatten(ret.index)

\* C12 witness: a tick of the pyramid that turned a vertex uploaded a triangle.
C12_Witness ==
    /\ Transformed
    /\ Uploads(1) # <<>>
    /\ Uploads(1)[1] = <<0, 1, 5>>
    /\ out[1] # Base

\* C13: the base vertices and the indices stored in a Mesh, and in the pyramid,
\* are those it was constructed with, after any number of updates.
C13_BaseDataUnchanged ==
    /\ mesh # <<>> =>
          mesh[1].vertices = ret.vert /\ mesh[1].indicies = ret.index
    /\ pyramid # <<>> => pyramid[1].mesh = <<ret.vert, ret.index>>

\* C13 witness: a tick has uploaded vertices that differ from the base vertices.
C13_Witness ==
    /\ Transformed
    /\ Uploads(0) # <<>>
    /\ Uploads(0)[1] # Flatten(ret.vert)
    /\ pyramid[1].rot.w >= 2

\* C14: no call of Mesh::new ends in a panic: every failure is a returned Err.
C14_NoPanic == MeshNewCalled => ret.kind # "panic"

\* C15: when Mesh::new succeeds the Mesh holds the three arguments, and the
\* constructor has bound no vertex array and no buffer.
C15_OkHoldsInputsNothingBound ==
    (MeshNewCalled /\ ret.kind = "Ok" /\ Constructed) =>
        /\ mesh # <<>>
        /\ mesh[1].vertices = ret.vert
        /\ mesh[1].vert_attr = ret.vert_attr
        /\ mesh[1].indicies = ret.index
        /\ gl.vao = 0 /\ gl.array = 0 /\ gl.element = 0
        /\ \A i \in 1..Len(gl.log) :
              gl.log[i].fn \notin {"glBindVertexArray", "glBindBuffer"}

\* C16: the Err of a layout mismatch carries both numbers, the component count
\* of the vertex and the sum of the layout.
C16_ErrCarriesBothValues ==
    (MeshNewCalled /\ ret.kind = "Err") =>
        {Len(as_list(ret.vert[1])), Sum(ret.vert_attr)}
            \subseteq {ret.err.vals[i] : i \in 1..Len(ret.err.vals)}

----------------------------------------------------------------------------
(* Properties of the camera settings builder (under SpecCamera) *)

\* a required argument of the builder b was never set
Missing(b) ==
    \/ b.screen_width = None
    \/ b.screen_height = None
    \/ b.win = None
    \/ b.shader_program = None

\* C18: the settings build() returns have the fov, near_plane, far_plane and
\* sensitivity of the builder: the value last passed to the setter, or the
\* default of new() (45.0, 0.1, 100.0, 1.0) when the setter was never called.
C18_BuildReturnsSetValues ==
    (op = "build" /\ settings.kind = "Ok") =>
        /\ settings.fov = builder.fov
        /\ settings.near_plane = builder.near_plane
        /\ settings.far_plane = builder.far_plane
        /\ settings.sensitivity = builder.sensitivity

\* C19: a call of build() panics exactly when one of screen_width,
\* screen_height, win, shader_program was never set; otherwise the settings
\* returned carry the value last set for each of the four; and the call leaves
\* the builder as it was.
C19_BuildPanicsIffRequiredMissing ==
    [][op' = "build" =>
          /\ builder' = builder
          /\ settings'.kind \in {"Ok", "panic"}
          /\ settings'.kind = "panic" <=> Missing(builder)
          /\ settings'.kind = "Ok" =>
                /\ Some(settings'.screen_width) = builder.screen_width
                /\ Some(settings'.screen_height) = builder.screen_height
                /\ Some(settings'.win) = builder.win
                /\ Some(settings'.shader_program) = builder.shader_program]_vars

\* C19 witness: build() has returned settings from a builder whose four
\* required arguments are set, with the second of the two widths and windows.
C19_Witness ==
    /\ op = "build"
    /\ settings.kind = "Ok"
    /\ ~Missing(builder)
    /\ settings.screen_width = 600
    /\ settings.win = "win2"

\* C19 second witness: build() has panicked on a builder that lacks only the
\* shader program.
C19_WitnessPanic ==
    /\ op = "build"
    /\ settings.kind = "panic"
    /\ builder.screen_width # None /\ builder.screen_height # None
    /\ builder.win # None
    /\ builder.shader_program = None

----------------------------------------------------------------------------
(* Properties of StateOfMouse::switch (under SpecMouse) *)

\* the state after the calls of switch with the arguments h, starting from Free
Expected(h) == IF Len(h) % 2 = 1 THEN Locked(h[Len(h)]) ELSE Free

\* C20: after n calls of switch starting from Free the state is Locked exactly
\* when n is odd, locked at the coordinates passed to the last call (the most
\* recent switch from Free to Locked); and switch leaves its receiver as it was,
\* the state after n - 1 calls.
C20_SwitchAlternates ==
    /\ state[1] \in {"Free", "Locked"}
    /\ state[1] = "Locked" <=> Len(hist) % 2 = 1
    /\ state[1] = "Locked" => state = Locked(hist[Len(hist)])
    /\ state[1] = "Free" => state = Free
    /\ Len(hist) > 0 => receiver = Expected(SubSeq(hist, 1, Len(hist) - 1))

\* C20 witness: three switches, the state locked at the coordinates of the
\* third, which differ from those of the first.
C20_Witness ==
    /\ Len(hist) = 3
    /\ state = Locked(hist[3])
    /\ hist[1] # hist[3]
    /\ receiver = Free

----------------------------------------------------------------------------
(* Properties of the mouse wrapper (under SpecCooldown) *)

\* the last call reported at least one pressed button
Reported == pressed.ret # None /\ pressed.ret[1] # <<>>

\* C21: a call of get_pressed_cooldown made when no more than the cooldown has
\* elapsed since last_pressed returns None and leaves last_pressed as it was; so
\* a call of get_pressed_cooldown that reports a button is made more than the
\* cooldown after the Mouse was created and after the previous call that
\* reported a button.
C21_CooldownGates ==
    pressed.call = "get_pressed_cooldown" =>
        /\ pressed.at - pressed.before <= pressed.cooldown =>
              pressed.ret = None /\ mouse.last_pressed = pressed.before
        /\ Reported =>
              /\ pressed.at - timeline.created > pressed.cooldown
              /\ pressed.prev_report # None =>
                    pressed.at - pressed.prev_report[1] > pressed.cooldown

\* C21 witness: a call with a cooldown of 2 has reported a button after an
\* earlier call had reported one.
C21_Witness ==
    /\ pressed.call = "get_pressed_cooldown"
    /\ pressed.cooldown = 2
    /\ Reported
    /\ pressed.prev_report # None

----------------------------------------------------------------------------
(* Properties of Texture::from_image (under SpecTexture) *)

\* from_image has been called
FromImageCalled == tex.kind # "none"

\* C22: from_image returns Err (and does not panic) whenever the map it is
\* given holds a name the table does not know; and when every name is known
\* the table of the texture it returns holds the given value for each given
\* name and None for every other known name.
C22_UnknownParamIsErr ==
    FromImageCalled =>
        IF \E n \in DOMAIN tex.params : n \notin KnownParams
        THEN tex.kind = "Err"
        ELSE tex.kind = "Ok" =>
             /\ texture # <<>>
             /\ \A n \in KnownParams :
                   texture[1].params[n] =
                       IF n \in DOMAIN tex.params THEN tex.params[n] ELSE MsnNone

----------------------------------------------------------------------------
(* Properties of ShaderProgram::from_vert_frag (under SpecShader) *)

\* from_vert_frag has been called
FromVertFragCalled == program.kind # "none"

\* the stage of the last call that failed first, "" if none did
FirstFailure ==
    LET gv == program.given
    IN  IF ~gv.palloc THEN "Couldn't allocate a program"
        ELSE IF ~(gv.valloc /\ gv.vert) THEN "Vertex Compile Error: "
        ELSE IF ~(gv.falloc /\ gv.frag) THEN "Fragment Compile Error: "
        ELSE IF ~gv.link THEN "Program Link Error: "
        ELSE ""

\* the GL calls of the last call that name the object type ty or an object of it
CallsOn(ty) ==
    SelectSeq(glsl.log, LAMBDA c :
        \/ c.fn = "glCreateShader" /\ c.args[1] = ty
        \/ /\ c.fn \in {"glShaderSource", "glCompileShader"}
           /\ c.args[1] # 0
           /\ glsl.objs[c.args[1]].ty = ty)

\* the objects the last call created
CreatedByCall == {id \in program.first..Len(glsl.objs) : TRUE}

\* C23: from_vert_frag returns Ok exactly when the program was allocated, both
\* shaders compiled and the link succeeded; otherwise it returns an Err whose
\* message starts with the name of the first stage that failed; and after a
\* failure of the vertex shader no fragment shader is created or compiled.
C23_OkIffAllStagesSucceed ==
    FromVertFragCalled =>
        /\ program.kind \in {"Ok", "Err"}
        /\ program.kind = "Ok" <=> FirstFailure = ""
        /\ program.kind = "Ok" =>
              /\ program.id \in CreatedByCall
              /\ glsl.objs[program.id].ty = "Program"
              /\ glsl.objs[program.id].linked
        /\ program.kind = "Err" => program.msg[1] = FirstFailure
        /\ FirstFailure \in {"Couldn't allocate a program", "Vertex Compile Error: "} =>
              CallsOn("Fragment") = <<>>

\* C23 witness: the vertex shader compiled, the fragment shader did not, and the
\* call returned the fragment compile error with the GL's info log.
C23_Witness ==
    /\ FromVertFragCalled
    /\ program.kind = "Err"
    /\ program.msg = <<"Fragment Compile Error: ", "0:2: undeclared">>
    /\ CallsOn("Vertex") # <<>>
    /\ CallsOn("Fragment") # <<>>

\* C27: when from_vert_frag returns Err, every object it created during the call
\* is marked for deletion; when it returns Ok, the two shaders are and the
\* program is not.
C27_ErrDeletesAllObjects ==
    FromVertFragCalled =>
        /\ program.kind = "Err" => \A id \in CreatedByCall : glsl.objs[id].deleted
        /\ program.kind = "Ok" =>
              \A id \in CreatedByCall :
                  glsl.objs[id].deleted <=> glsl.objs[id].ty # "Program"

----------------------------------------------------------------------------
(* Properties of the frames of the demo program (under SpecWorld) *)

\* the vertices base with the position of each turned by angle about axis
Rotated(base, angle, axis) ==
    [i \in 1..Len(base) |-> rotate_vec3(PosOf(base[i]), angle, axis) \o RestOf(base[i])]

\* the functions of the GL called by the last operation, in call order
GlCalls == [i \in 1..Len(gl.log) |-> gl.log[i].fn]

\* C24: after n frames from the angle a0 the stored angle is a0 plus n steps, and
\* the vertex buffer uploaded in frame n is the base vertices (those the pyramid
\* was constructed with) turned once by that angle.
C24_AngleAccumulates ==
    pyramid # <<>> =>
        /\ pyramid[1].rot.w = ticks.a0 + ticks.n * AngleStep
        /\ ticks.n > 0 =>
              Uploads(0) = <<Flatten(Rotated(ret.vert, ticks.a0 + ticks.n * AngleStep,
                                             pyramid[1].rot.xyz))>>

\* C24 witness: the second frame of a pyramid created at one quarter turn has
\* uploaded vertices that differ from the base vertices and from the base
\* vertices turned by the two steps since.
C24_Witness ==
    /\ pyramid # <<>>
    /\ ticks.a0 = 1 /\ ticks.n = 2
    /\ Uploads(0) # <<Flatten(ret.vert)>>
    /\ Uploads(0) # <<Flatten(Rotated(ret.vert, 2 * AngleStep, pyramid[1].rot.xyz))>>

\* C25: a frame calls Camera::matrix, Camera::on_key and Pyramid::update once
\* each, in this order: the matrix uploaded is that of the camera before the keys
\* of the frame moved it; then the angle is stepped once, the vertices
\* transformed with the stepped angle are uploaded once, and the indices after
\* them.
C25_FrameOrder ==
    [][ticks'.n = ticks.n + 1 =>
          /\ world'.trace = <<"Camera::matrix", "Camera::on_key", "Pyramid::update">>
          /\ GlCalls' = <<"glGetUniformLocation", "glUniformMatrix4fv",
                          "glBufferData", "glBufferData">>
          /\ gl'.log[2].data = world.pos
          /\ world'.pos = on_key_from(world.pos, world'.keys, 1)
          /\ pyramid'[1].rot.w = pyramid[1].rot.w + AngleStep
          /\ out' = <<get_vert(pyramid'[1])>>
          /\ gl'.log[3].args = <<0>> /\ gl'.log[3].data = Flatten(out'[1])
          /\ gl'.log[4].args = <<1>> /\ gl'.log[4].data = Flatten(pyramid'[1].mesh[2])]_vars

\* C25 witness: a frame in which keys moved the camera and the pyramid turned.
C25_Witness ==
    /\ ticks.n = 2
    /\ world.keys = <<"D", "Space">>
    /\ world.pos # CameraStart
    /\ gl.log[2].data # world.pos
    /\ out # <<>> /\ out[1] # ret.vert

----------------------------------------------------------------------------
(* Properties of the mesh systems (under SpecEcs) *)

\* what Mesh::update hands to glBufferData(GL_ARRAY_BUFFER) for the i-th entity
EcsVertexData(i) ==
    LET m == ecs.meshes[i]
    IN  Flatten([k \in 1..Len(m.vertices) |->
                    as_list(get_vertex(m.vertices[k], ecs.poses[i].pos, ecs.poses[i].rot))])

\* C26: with two or more meshes, after the setup system and then the update
\* system have run over all of them, the vertex buffer of each mesh holds that
\* mesh's transformed vertices and its element buffer that mesh's indices.
C26_UploadsIntoOwnBuffers ==
    (ecs.ran = "update" /\ Len(ecs.meshes) >= 2) =>
        \A i \in 1..Len(ecs.meshes) :
            /\ gl.data[ecs.meshes[i].vbo] = EcsVertexData(i)
            /\ gl.data[ecs.meshes[i].ebo] = Flatten(ecs.meshes[i].indicies)

----------------------------------------------------------------------------
(* Properties of Camera::on_mouse (under SpecOnMouse) *)

\* the button key is among those the last call of get_pressed_cooldown returned
Returned(key) ==
    /\ pressed.ret # None
    /\ \E i \in 1..Len(pressed.ret[1]) : pressed.ret[1][i] = key

\* C28: in on_mouse, once the cooldown has elapsed, a right press leaves the
\* state Free (also when left is pressed too: left is applied first), a left
\* press alone leaves it Locked at the centre of the window; when
\* get_pressed_cooldown returns None or neither button is pressed the state is as
\* before; and when the state after the call is Locked the cursor has been
\* warped to the locked coordinates (in whole pixels), otherwise not at all.
C28_OnMouse ==
    onmouse.called =>
        /\ pressed.ret # None <=> pressed.at - pressed.before > OnMouseCooldown
        /\ Returned("RightMouse") => mouse.state = Free
        /\ (Returned("LeftMouse") /\ ~Returned("RightMouse")) =>
              mouse.state = Locked(Half(onmouse.win_size))
        /\ (~Returned("LeftMouse") /\ ~Returned("RightMouse")) =>
              mouse.state = onmouse.before
        /\ mouse.state[1] = "Locked" =>
              onmouse.warp = Some(<<AsI32(mouse.state[2][1]), AsI32(mouse.state[2][2])>>)
        /\ mouse.state = Free => onmouse.warp = None

\* C28 witness: left and right were both down after the cooldown, in a frame
\* that began Locked at the centre of the other window size, and the state
\* ended Free.
C28_Witness ==
    /\ onmouse.called
    /\ Returned("LeftMouse") /\ Returned("RightMouse")
    /\ onmouse.before = Locked(<<641, 481>>)
    /\ onmouse.win_size = <<800, 600>>
    /\ mouse.state = Free

\* C28 second witness: a frame in which the cooldown held a press back while the
\* state was Locked: the cursor was warped to the pixel of the locked point.
C28_WitnessLocked ==
    /\ onmouse.called
    /\ pressed.ret = None
    /\ mouse.mouse.button_pressed[2]
    /\ mouse.state = Locked(<<641, 481>>)
    /\ onmouse.warp = Some(<<320, 240>>)

====
